---- MODULE Spec2Model ----
(***************************************************************************)
(* Model of the IoT cloud relay server (src/server.js): the two connection *)
(* registries, the device registry, the shared state snapshot, the         *)
(* WebSocket connection handlers and the HTTP control endpoint.            *)
(*                                                                         *)
(* Every handler of the server runs to completion on the single event      *)
(* loop, so each handler is one action.  JSON values are modelled by their *)
(* JSON text ("true", "30"), timestamps by the ISO text of a clock reading.*)
(***************************************************************************)
EXTENDS Integers, Sequences, FiniteSets, TLC

VARIABLES
    now,                \* the wall clock read by `new Date()`
    nextConn,           \* number of upgrade requests the transport has delivered
    readyState,         \* ws.readyState of every connection handle
    connKind,           \* branch of wss.on('connection') taken for the handle
    connId,             \* the deviceId / clientId captured by the handle's closures
    closeCode,          \* code passed to ws.close by the server (0: none)
    iotDevices,         \* Map deviceId -> ws
    webClients,         \* Map clientId -> ws
    deviceStates,       \* the shared snapshot object
    registeredDevices,  \* the device registry array
    out,                \* frames pushed to each handle by the last handler
    last,               \* the last handler run: its inputs and HTTP response
    mergeLog            \* history: the sensorData merges applied so far

vars == <<now, nextConn, readyState, connKind, connId, closeCode, iotDevices,
          webClients, deviceStates, registeredDevices, out, last, mergeLog>>

----------------------------------------------------------------------------
(* Bounds of the model *)

MaxConns == 3
MaxTime == 1

Handles == 1..MaxConns

----------------------------------------------------------------------------
(* Values *)

NULL == "null"
UNDEFINED == "undefined"

\* Date.prototype.toISOString of the clock reading t
ToISO(t) == "T" \o ToString(t)

\* variant: only an absent parameter is falsy (deviceId !== null)
Truthy_NotNull(s) == s # NULL

\* JavaScript truthiness of a query parameter (string or null)
Truthy(s) == s # NULL /\ s # ""

\* A Map / plain object is a function whose domain is its key set
EmptyMap == [k \in {} |-> NULL]
Has(m, k) == k \in DOMAIN m
MapSet(m, k, v) == [x \in (DOMAIN m) \cup {k} |-> IF x = k THEN v ELSE m[x]]
\* variant: delete leaves the entry in place
MapDelete_Noop(m, k) == m
MapDelete(m, k) == [x \in (DOMAIN m) \ {k} |-> m[x]]
MapValues(m) == {m[k] : k \in DOMAIN m}

\* variant: the arguments swapped, existing keys keep their value
ObjectAssign_TargetWins(target, source) ==
    [x \in (DOMAIN target) \cup (DOMAIN source) |->
        IF x \in DOMAIN target THEN target[x] ELSE source[x]]

\* Object.assign(target, source)
ObjectAssign(target, source) ==
    [x \in (DOMAIN target) \cup (DOMAIN source) |->
        IF x \in DOMAIN source THEN source[x] ELSE target[x]]

----------------------------------------------------------------------------
(* Inputs *)

\* `type` query parameter of an upgrade request
ClientTypes == {"device", "web", "admin", NULL}
\* `deviceId` query parameter: a registered identity, an unregistered one,
\* the empty string, and absent
DeviceIdParams == {"device_001", "device_x", "", NULL}
\* results of Math.random().toString(36).substring(7)
ClientIds == {"a1b2c", "x9y8z"}
\* :deviceId path parameter of the control endpoint
TargetIds == {"device_001", "device_x"}

\* {command, value} bodies of the control endpoint
Commands ==
    { [command |-> "led", value |-> "true"],
      [command |-> "reboot", value |-> "true"] }

\* `data` mappings of sensorData frames
FieldMaps ==
    { [k \in {"co2"} |-> "400"],
      [k \in {"temperature", "co2", "lastUpdate"} |->
          CASE k = "temperature" -> "30" [] k = "co2" -> "410" [] k = "lastUpdate" -> "never"] }

\* inbound device frames: text that does not parse, a frame of another type,
\* and sensorData frames
Messages ==
    { [parses |-> FALSE, type |-> UNDEFINED, data |-> EmptyMap],
      [parses |-> TRUE, type |-> "status", data |-> EmptyMap] }
    \cup { [parses |-> TRUE, type |-> "sensorData", data |-> F] : F \in FieldMaps }

----------------------------------------------------------------------------
(* Initial state *)

InitDeviceStates ==
    [k \in {"temperature", "humidity", "led", "pump", "fanSpeed", "power", "lastUpdate"} |->
        CASE k = "temperature" -> "24.5"
          [] k = "humidity" -> "68"
          [] k = "led" -> "false"
          [] k = "pump" -> "false"
          [] k = "fanSpeed" -> "45"
          [] k = "power" -> "156"
          [] k = "lastUpdate" -> ToISO(0)]

InitRegisteredDevices ==
    << [id |-> "device_001", name |-> "Kitchen Sensor", type |-> "sensor",
        location |-> "Kitchen", online |-> FALSE, lastSeen |-> NULL],
       [id |-> "device_002", name |-> "LED Controller", type |-> "actuator",
        location |-> "Living Room", online |-> FALSE, lastSeen |-> NULL] >>

NoFrames == [h \in Handles |-> << >>]

\* res.json(...) of the control endpoint; status 0: no HTTP response
NoResponse ==
    [status |-> 0, success |-> FALSE, message |-> UNDEFINED, error |-> UNDEFINED,
     command |-> UNDEFINED, value |-> UNDEFINED]

NoMessage == [parses |-> FALSE, type |-> UNDEFINED, data |-> EmptyMap]

\* record of a handler run: the handler, the handle it ran on, its inputs,
\* the clock when it started and its HTTP response
NoHandler ==
    [op |-> "start", ws |-> 0, clientType |-> NULL, deviceId |-> NULL,
     command |-> UNDEFINED, value |-> UNDEFINED, message |-> NoMessage,
     t |-> 0, res |-> NoResponse]

Init ==
    /\ now = 0
    /\ nextConn = 0
    /\ readyState = [h \in Handles |-> "NONE"]
    /\ connKind = [h \in Handles |-> "none"]
    /\ connId = [h \in Handles |-> NULL]
    /\ closeCode = [h \in Handles |-> 0]
    /\ iotDevices = EmptyMap
    /\ webClients = EmptyMap
    /\ deviceStates = InitDeviceStates
    /\ registeredDevices = InitRegisteredDevices
    /\ out = NoFrames
    /\ last = NoHandler
    /\ mergeLog = [fields |-> EmptyMap, time |-> -1]

----------------------------------------------------------------------------
(* Helpers of the handlers *)

\* a later reading of the clock inside the same handler
Later(t) == {t, IF t < MaxTime THEN t + 1 ELSE t}

\* ws.readyState === WebSocket.OPEN, in the transport state rs
IsOpen(rs, h) == rs[h] = "OPEN"

\* ws.send(JSON.stringify(frame)) on handle h
Send(o, h, frame) == [o EXCEPT ![h] = Append(@, frame)]

\* number of entries of a Map that hold handle h
Entries(m, h) == Cardinality({k \in DOMAIN m : m[k] = h})

RECURSIVE Repeat(_, _, _)
Repeat(s, frame, n) == IF n = 0 THEN s ELSE Repeat(Append(s, frame), frame, n - 1)

\* variant: the iteration stops after the first open dashboard
broadcastToWebClients_FirstOnly(rs, o, data) ==
    LET open == {h \in Handles : IsOpen(rs, h) /\ Entries(webClients, h) > 0}
    IN  [h \in Handles |->
            IF h \in open /\ (\A g \in open : h <= g) THEN Append(o[h], data) ELSE o[h]]

\* variant: the iteration ends at the first entry whose connection is not open
broadcastToWebClients_StopsAtClosed(rs, o, data) ==
    LET held == {h \in Handles : Entries(webClients, h) > 0}
    IN  [h \in Handles |->
            IF h \in held /\ (\A g \in held : g <= h => IsOpen(rs, g))
            THEN Append(o[h], data) ELSE o[h]]

\* variant: the frame goes to every open connection, devices included
broadcastToWebClients_Everyone(rs, o, data) ==
    [h \in Handles |-> IF IsOpen(rs, h) THEN Append(o[h], data) ELSE o[h]]

\* broadcastToWebClients(data): one send per entry of webClients whose
\* connection is open
broadcastToWebClients(rs, o, data) ==
    [h \in Handles |->
        IF IsOpen(rs, h) THEN Repeat(o[h], data, Entries(webClients, h)) ELSE o[h]]

\* variant: the first record is taken whatever its id
FindDevice_First(deviceId) == IF Len(registeredDevices) = 0 THEN 0 ELSE 1

\* registeredDevices.find(d => d.id === deviceId): index of the first match, 0 if none
FindDevice(deviceId) ==
    LET hits == {i \in 1..Len(registeredDevices) : registeredDevices[i].id = deviceId}
    IN  IF hits = {} THEN 0 ELSE CHOOSE i \in hits : \A j \in hits : i <= j

\* variant: an id without a record gets one
SetStatus_AddsUnknown(deviceId, online, t) ==
    LET i == FindDevice(deviceId)
    IN  IF i = 0
        THEN Append(registeredDevices,
                    [id |-> deviceId, name |-> deviceId, type |-> "unknown",
                     location |-> "unknown", online |-> online, lastSeen |-> ToISO(t)])
        ELSE [registeredDevices EXCEPT ![i].online = online, ![i].lastSeen = ToISO(t)]

\* variant: the record is stamped online by the close handler too
SetStatus_AlwaysOnline(deviceId, online, t) ==
    LET i == FindDevice(deviceId)
    IN  IF i = 0 THEN registeredDevices
        ELSE [registeredDevices EXCEPT ![i].online = TRUE, ![i].lastSeen = ToISO(t)]

\* variant: the flag is set, lastSeen is left alone
SetStatus_NoLastSeen(deviceId, online, t) ==
    LET i == FindDevice(deviceId)
    IN  IF i = 0 THEN registeredDevices
        ELSE [registeredDevices EXCEPT ![i].online = online]

\* const device = find(...); if (device) { device.online = ...; device.lastSeen = ... }
SetStatus(deviceId, online, t) ==
    LET i == FindDevice(deviceId)
    IN  IF i = 0 THEN registeredDevices
        ELSE [registeredDevices EXCEPT ![i].online = online, ![i].lastSeen = ToISO(t)]

\* variant: the command is relayed, the local state is not updated
SetField_Skipped(states, command, value) == states

\* variant: the field is set whether or not the snapshot has it
SetField_AlwaysSets(states, command, value) == MapSet(states, command, value)

\* if (deviceStates.hasOwnProperty(command)) deviceStates[command] = value
SetField(states, command, value) ==
    IF Has(states, command) THEN MapSet(states, command, value) ELSE states

\* Object.assign(deviceStates, data.data); deviceStates.lastUpdate = new Date()
Merge(states, data, t) ==
    MapSet(ObjectAssign(states, data), "lastUpdate", ToISO(t))

\* variant: the snapshot sent is the one built at startup
InitialData_StartupSnapshot(t) ==
    [type |-> "initialData", devices |-> registeredDevices,
     sensors |-> InitDeviceStates, timestamp |-> ToISO(t)]

\* the initialData frame: the registry listing and the snapshot as they are
InitialData(t) ==
    [type |-> "initialData", devices |-> registeredDevices,
     sensors |-> deviceStates, timestamp |-> ToISO(t)]

\* variant: the catch block closes the connection
CatchParseError_Closes(rs, ws) == [rs EXCEPT ![ws] = "CLOSING"]

\* catch (error) { console.error(...) }: the transport state after the catch
CatchParseError(rs, ws) == rs

----------------------------------------------------------------------------
(* wss.on('connection') *)

\* clientType === 'device' && deviceId
DeviceConnect(clientType, deviceId) ==
    /\ nextConn < MaxConns
    /\ clientType = "device" /\ Truthy(deviceId)
    /\ LET ws == nextConn + 1 IN
        /\ nextConn' = ws
        /\ readyState' = [readyState EXCEPT ![ws] = "OPEN"]
        /\ connKind' = [connKind EXCEPT ![ws] = "device"]
        /\ connId' = [connId EXCEPT ![ws] = deviceId]
        /\ iotDevices' = MapSet(iotDevices, deviceId, ws)
        /\ registeredDevices' = SetStatus(deviceId, TRUE, now)
        /\ out' = Send(NoFrames, ws,
                       [type |-> "config", message |-> "Connected to cloud server",
                        deviceId |-> deviceId])
        /\ last' = [NoHandler EXCEPT !.op = "connection", !.ws = ws, !.t = now,
                                     !.clientType = clientType, !.deviceId = deviceId]
    /\ UNCHANGED <<now, closeCode, webClients, deviceStates, mergeLog>>

\* clientType === 'web'
WebConnect(clientType, deviceId, clientId) ==
    /\ nextConn < MaxConns
    /\ clientType = "web"
    /\ LET ws == nextConn + 1 IN
        /\ nextConn' = ws
        /\ readyState' = [readyState EXCEPT ![ws] = "OPEN"]
        /\ connKind' = [connKind EXCEPT ![ws] = "web"]
        /\ connId' = [connId EXCEPT ![ws] = clientId]
        /\ webClients' = MapSet(webClients, clientId, ws)
        /\ out' = Send(NoFrames, ws, InitialData(now))
        /\ last' = [NoHandler EXCEPT !.op = "connection", !.ws = ws, !.t = now,
                                     !.clientType = clientType, !.deviceId = deviceId]
    /\ UNCHANGED <<now, closeCode, iotDevices, deviceStates, registeredDevices, mergeLog>>

\* else: ws.close(1008, 'Invalid client type')
RejectConnect(clientType, deviceId) ==
    /\ nextConn < MaxConns
    /\ ~(clientType = "device" /\ Truthy(deviceId))
    /\ clientType # "web"
    /\ LET ws == nextConn + 1 IN
        /\ nextConn' = ws
        /\ readyState' = [readyState EXCEPT ![ws] = "CLOSING"]
        /\ connKind' = [connKind EXCEPT ![ws] = "rejected"]
        /\ closeCode' = [closeCode EXCEPT ![ws] = 1008]
        /\ out' = NoFrames
        /\ last' = [NoHandler EXCEPT !.op = "connection", !.ws = ws, !.t = now,
                                     !.clientType = clientType, !.deviceId = deviceId]
    /\ UNCHANGED <<now, connId, iotDevices, webClients, deviceStates, registeredDevices,
                   mergeLog>>

----------------------------------------------------------------------------
(* ws.on('message') of a device connection *)

DeviceMessage(ws, message) ==
    /\ connKind[ws] = "device"
    /\ IsOpen(readyState, ws)
    /\ LET deviceId == connId[ws] IN
        /\ last' = [NoHandler EXCEPT !.op = "message", !.ws = ws, !.t = now,
                                     !.deviceId = deviceId, !.message = message]
        /\ IF message.parses /\ message.type = "sensorData"
           THEN \E t2 \in Later(now) :
                /\ deviceStates' = Merge(deviceStates, message.data, now)
                /\ mergeLog' = [fields |-> [k \in (DOMAIN mergeLog.fields) \cup
                                                  (DOMAIN message.data) |->
                                                IF k \in DOMAIN message.data
                                                THEN message.data[k]
                                                ELSE mergeLog.fields[k]],
                                time |-> now]
                /\ out' = broadcastToWebClients(readyState, NoFrames,
                              [type |-> "sensorUpdate", deviceId |-> deviceId,
                               data |-> message.data, timestamp |-> ToISO(t2)])
                /\ now' = t2
           ELSE \* JSON.parse threw (caught and logged), or another frame type
                /\ out' = NoFrames
                /\ UNCHANGED <<deviceStates, now, mergeLog>>
        /\ readyState' = IF message.parses THEN readyState
                                            ELSE CatchParseError(readyState, ws)
    /\ UNCHANGED <<nextConn, connKind, connId, closeCode, iotDevices,
                   webClients, registeredDevices>>

----------------------------------------------------------------------------
(* Transport events and ws.on('close') *)

\* the peer starts the closing handshake: the handle is no longer OPEN, the
\* 'close' event is not emitted yet
PeerClosing(ws) ==
    /\ connKind[ws] \in {"device", "web"}
    /\ IsOpen(readyState, ws)
    /\ readyState' = [readyState EXCEPT ![ws] = "CLOSING"]
    /\ out' = NoFrames
    /\ last' = [NoHandler EXCEPT !.op = "closing", !.ws = ws, !.t = now]
    /\ UNCHANGED <<now, nextConn, connKind, connId, closeCode, iotDevices, webClients,
                   deviceStates, registeredDevices, mergeLog>>

\* ws.on('close') of a device connection
DeviceClose(ws) ==
    /\ connKind[ws] = "device"
    /\ readyState[ws] \in {"OPEN", "CLOSING"}
    /\ LET deviceId == connId[ws]
           rs == [readyState EXCEPT ![ws] = "CLOSED"]
       IN \E t2 \in Later(now) :
        /\ readyState' = rs
        /\ iotDevices' = MapDelete(iotDevices, deviceId)
        /\ registeredDevices' = SetStatus(deviceId, FALSE, now)
        /\ out' = broadcastToWebClients(rs, NoFrames,
                      [type |-> "deviceDisconnected", deviceId |-> deviceId,
                       timestamp |-> ToISO(t2)])
        /\ now' = t2
        /\ last' = [NoHandler EXCEPT !.op = "close", !.ws = ws, !.t = now,
                                     !.deviceId = deviceId]
    /\ UNCHANGED <<nextConn, connKind, connId, closeCode, webClients, deviceStates,
                   mergeLog>>

\* ws.on('close') of a dashboard connection
WebClose(ws) ==
    /\ connKind[ws] = "web"
    /\ readyState[ws] \in {"OPEN", "CLOSING"}
    /\ readyState' = [readyState EXCEPT ![ws] = "CLOSED"]
    /\ webClients' = MapDelete(webClients, connId[ws])
    /\ out' = NoFrames
    /\ last' = [NoHandler EXCEPT !.op = "close", !.ws = ws, !.t = now]
    /\ UNCHANGED <<now, nextConn, connKind, connId, closeCode, iotDevices, deviceStates,
                   registeredDevices, mergeLog>>

\* a rejected connection finishes closing; no handler is registered on it
RejectedClosed(ws) ==
    /\ connKind[ws] = "rejected"
    /\ readyState[ws] = "CLOSING"
    /\ readyState' = [readyState EXCEPT ![ws] = "CLOSED"]
    /\ out' = NoFrames
    /\ last' = [NoHandler EXCEPT !.op = "closed", !.ws = ws, !.t = now]
    /\ UNCHANGED <<now, nextConn, connKind, connId, closeCode, iotDevices, webClients,
                   deviceStates, registeredDevices, mergeLog>>

----------------------------------------------------------------------------
(* app.post('/api/devices/:deviceId/control') *)

\* variant: the handle is looked up, its readyState is not checked
DeviceConnected_NoOpenCheck(deviceId) == Has(iotDevices, deviceId)

\* deviceWs && deviceWs.readyState === WebSocket.OPEN
DeviceConnected(deviceId) ==
    Has(iotDevices, deviceId) /\ IsOpen(readyState, iotDevices[deviceId])

issueCommand(deviceId, command, value) ==
    /\ IF DeviceConnected(deviceId)
       THEN \E t2 \in Later(now) :
            LET deviceWs == iotDevices[deviceId]
                commandMessage == [type |-> "command", command |-> command,
                                   value |-> value, timestamp |-> ToISO(now)]
            IN
            /\ deviceStates' = SetField(deviceStates, command, value)
            /\ out' = broadcastToWebClients(readyState,
                          Send(NoFrames, deviceWs, commandMessage),
                          [type |-> "stateUpdate", deviceId |-> deviceId,
                           command |-> command, value |-> value,
                           timestamp |-> ToISO(t2)])
            /\ now' = t2
            /\ last' = [NoHandler EXCEPT
                            !.op = "control", !.t = now, !.deviceId = deviceId,
                            !.command = command, !.value = value,
                            !.res = [NoResponse EXCEPT
                                        !.status = 200, !.success = TRUE,
                                        !.message = "Command sent to " \o deviceId,
                                        !.command = command, !.value = value]]
       ELSE /\ out' = NoFrames
            /\ last' = [NoHandler EXCEPT
                            !.op = "control", !.t = now, !.deviceId = deviceId,
                            !.command = command, !.value = value,
                            !.res = [NoResponse EXCEPT
                                        !.status = 404, !.success = FALSE,
                                        !.error = "Device " \o deviceId \o
                                                  " is not connected"]]
            /\ UNCHANGED <<deviceStates, now>>
    /\ UNCHANGED <<nextConn, readyState, connKind, connId, closeCode, iotDevices,
                   webClients, registeredDevices, mergeLog>>

----------------------------------------------------------------------------
(* Time *)

\* the clock advances between two handlers; no handler runs, nothing is sent
Tick ==
    /\ now < MaxTime
    /\ now' = now + 1
    /\ out' = NoFrames
    /\ last' = [NoHandler EXCEPT !.op = "tick", !.t = now + 1]
    /\ UNCHANGED <<nextConn, readyState, connKind, connId, closeCode, iotDevices,
                   webClients, deviceStates, registeredDevices, mergeLog>>

----------------------------------------------------------------------------
(* Specification *)

Next ==
    \/ \E clientType \in ClientTypes, deviceId \in DeviceIdParams :
            DeviceConnect(clientType, deviceId)
    \/ \E clientType \in ClientTypes, deviceId \in DeviceIdParams, clientId \in ClientIds :
            WebConnect(clientType, deviceId, clientId)
    \/ \E clientType \in ClientTypes, deviceId \in DeviceIdParams :
            RejectConnect(clientType, deviceId)
    \/ \E ws \in Handles, message \in Messages : DeviceMessage(ws, message)
    \/ \E ws \in Handles : PeerClosing(ws)
    \/ \E ws \in Handles : DeviceClose(ws)
    \/ \E ws \in Handles : WebClose(ws)
    \/ \E ws \in Handles : RejectedClosed(ws)
    \/ \E deviceId \in TargetIds, c \in Commands : issueCommand(deviceId, c.command, c.value)
    \/ Tick

Spec == Init /\ [][Next]_vars

----------------------------------------------------------------------------
(* Vocabulary of the properties *)

\* positions of the frames of a given type among the frames sent to a handle
FramesOfType(frames, type) == {i \in 1..Len(frames) : frames[i].type = type}

\* a dashboard connection between its classification and the processing of
\* its closure (state Active of the connection state machine)
ActiveDashboard(h) == connKind[h] = "web" /\ readyState[h] # "CLOSED"

\* a device connection between its classification and the processing of its
\* closure
ActiveDevice(h) == connKind[h] = "device" /\ readyState[h] # "CLOSED"

\* a dashboard connection held in the dashboard registry whose transport is open
OpenRegisteredDashboard(h) ==
    (\E k \in DOMAIN webClients : webClients[k] = h) /\ readyState[h] = "OPEN"

\* fields of a snapshot that differ from, or are missing in, another snapshot
ChangedFields(before, after) ==
    {k \in (DOMAIN before) \cup (DOMAIN after) :
        \/ k \notin DOMAIN before
        \/ k \notin DOMAIN after
        \/ before[k] # after[k]}

----------------------------------------------------------------------------
(* C1: issueCommand on an identity that has no registered connection, or    *)
(* whose registered handle is not open, answers DeviceNotConnected (404,    *)
(* success false), leaves the snapshot, both connection registries and the  *)
(* device registry unchanged, and sends no frame to any connection.         *)

\* C1: a command to an identity without a registered open connection fails
\* with 404, changes no state and sends nothing
C1_NotConnectedFails ==
    [][ (/\ last'.op = "control"
         /\ \/ last'.deviceId \notin DOMAIN iotDevices
            \/ readyState[iotDevices[last'.deviceId]] # "OPEN")
        => /\ last'.res.status = 404
           /\ last'.res.success = FALSE
           /\ last'.res.error = "Device " \o last'.deviceId \o " is not connected"
           /\ deviceStates' = deviceStates
           /\ iotDevices' = iotDevices
           /\ webClients' = webClients
           /\ registeredDevices' = registeredDevices
           /\ \A h \in Handles : out'[h] = << >> ]_vars

\* a command was issued to an identity whose registered handle is closing
C1_Witness ==
    /\ last.op = "control"
    /\ last.res.status = 404
    /\ last.deviceId \in DOMAIN iotDevices
    /\ readyState[iotDevices[last.deviceId]] = "CLOSING"

----------------------------------------------------------------------------
(* C2: issueCommand(d, name, value) on an identity with a registered, open  *)
(* device connection and an existing snapshot key name: that connection     *)
(* receives exactly one command frame carrying name and value, the snapshot *)
(* field name equals value afterwards, the call answers success echoing     *)
(* name and value, and every dashboard receives exactly one stateUpdate     *)
(* frame carrying d, name and value.                                        *)

C2_Case ==
    /\ last'.op = "control"
    /\ last'.deviceId \in DOMAIN iotDevices
    /\ readyState[iotDevices[last'.deviceId]] = "OPEN"
    /\ last'.command \in DOMAIN deviceStates

C2_DeviceAndState ==
    LET ws == iotDevices[last'.deviceId] IN
    /\ Cardinality(FramesOfType(out'[ws], "command")) = 1
    /\ \A i \in FramesOfType(out'[ws], "command") :
            /\ out'[ws][i].command = last'.command
            /\ out'[ws][i].value = last'.value
    /\ deviceStates'[last'.command] = last'.value
    /\ last'.res.status = 200
    /\ last'.res.success = TRUE
    /\ last'.res.command = last'.command
    /\ last'.res.value = last'.value

C2_OneStateUpdate(h) ==
    /\ Cardinality(FramesOfType(out'[h], "stateUpdate")) = 1
    /\ \A i \in FramesOfType(out'[h], "stateUpdate") :
            /\ out'[h][i].deviceId = last'.deviceId
            /\ out'[h][i].command = last'.command
            /\ out'[h][i].value = last'.value

\* C2 as claimed: every connected (Active) dashboard receives the stateUpdate
C2_AsClaimed ==
    [][ C2_Case =>
            /\ C2_DeviceAndState
            /\ \A h \in Handles : ActiveDashboard(h) => C2_OneStateUpdate(h) ]_vars

\* C2 (amended): one command frame to the device, the field set, success
\* echoed, and one stateUpdate to every dashboard that is held in the registry
\* and whose connection is open
C2_CommandDelivered ==
    [][ C2_Case =>
            /\ C2_DeviceAndState
            /\ \A h \in Handles : OpenRegisteredDashboard(h) => C2_OneStateUpdate(h) ]_vars

\* a command on an existing key reached an open device while two dashboards
\* were registered and open
C2_Witness ==
    /\ last.op = "control"
    /\ last.res.status = 200
    /\ last.command = "led"
    /\ Cardinality({h \in Handles : OpenRegisteredDashboard(h)
                                    /\ FramesOfType(out[h], "stateUpdate") # {}}) = 2

----------------------------------------------------------------------------
(* C3: when two device connections A then B connect with the same identity  *)
(* d, the registry entry for d holds B, and every issueCommand(d, ...)      *)
(* issued while B is still open delivers its command frame to B and only to *)
(* B, whatever happened in between.                                         *)

\* the device connections that connected with identity d, in handle order
ConnectionsOf(d) == {h \in Handles : connKind[h] = "device" /\ connId[h] = d}

\* the most recent of them
LatestOf(d) == CHOOSE h \in ConnectionsOf(d) : \A g \in ConnectionsOf(d) : g <= h

\* C3: while the later connection B of identity d is open, the registry holds
\* B for d and a command to d is delivered to B and to no other handle
C3_SecondConnectionOwnsIdentity ==
    \A d \in TargetIds :
        (Cardinality(ConnectionsOf(d)) >= 2 /\ readyState[LatestOf(d)] = "OPEN")
        => /\ d \in DOMAIN iotDevices
           /\ iotDevices[d] = LatestOf(d)
           /\ (last.op = "control" /\ last.deviceId = d)
                => /\ Cardinality(FramesOfType(out[LatestOf(d)], "command")) = 1
                   /\ \A h \in Handles \ {LatestOf(d)} :
                            FramesOfType(out[h], "command") = {}

----------------------------------------------------------------------------
(* C4: a connection registry entry exists for a connection exactly during   *)
(* that connection's lifetime: it is created when the connection is         *)
(* classified, it is removed only when the transport signals closure of     *)
(* that same connection, and there is at most one entry per device          *)
(* identifier.  (An entry replaced by a reconnect is not counted as removed *)
(* here: the identifier keeps an entry.)                                    *)

\* registry keys gained and lost by a step
Gained(m, mNext) == (DOMAIN mNext) \ (DOMAIN m)
Lost(m, mNext) == (DOMAIN m) \ (DOMAIN mNext)

\* C4: registry keys appear only in the connection handler, which registers
\* the new handle under its identifier, and disappear only in the close
\* handler of the handle they hold
C4_EntryLifetime ==
    [][ /\ \A k \in Gained(iotDevices, iotDevices') \cup Gained(webClients, webClients') :
                last'.op = "connection"
        /\ last'.op = "connection" /\ connKind'[last'.ws] = "device"
                => iotDevices'[connId'[last'.ws]] = last'.ws
        /\ last'.op = "connection" /\ connKind'[last'.ws] = "web"
                => webClients'[connId'[last'.ws]] = last'.ws
        /\ \A k \in Lost(iotDevices, iotDevices') :
                last'.op = "close" /\ last'.ws = iotDevices[k]
        /\ \A k \in Lost(webClients, webClients') :
                last'.op = "close" /\ last'.ws = webClients[k] ]_vars

----------------------------------------------------------------------------
(* C5: the online flag of every DeviceRecord is true exactly while a live   *)
(* (Active, closure not yet signaled) device connection with that identity  *)
(* exists.                                                                  *)

\* C5: online is true exactly while a live device connection of that identity
\* exists
C5_OnlineIffLive ==
    \A i \in 1..Len(registeredDevices) :
        registeredDevices[i].online
            <=> \E h \in Handles : ActiveDevice(h) /\ connId[h] = registeredDevices[i].id

----------------------------------------------------------------------------
(* C6: for a device whose identity has a DeviceRecord that is offline when  *)
(* it connects, the connect followed by that connection's disconnect moves  *)
(* the online flag false -> true -> false, lastSeen is set to the event     *)
(* time at each of the two transitions, and at the second transition every  *)
(* dashboard receives a deviceDisconnected event carrying that identity.    *)

\* index of the record with identity d in a registry listing, 0 if none
RecordOf(devices, d) ==
    IF \E i \in 1..Len(devices) : devices[i].id = d
    THEN CHOOSE i \in 1..Len(devices) : devices[i].id = d
    ELSE 0

C6_ConnectStep ==
    /\ last'.op = "connection"
    /\ connKind'[last'.ws] = "device"
    /\ RecordOf(registeredDevices, connId'[last'.ws]) # 0
    /\ ~registeredDevices[RecordOf(registeredDevices, connId'[last'.ws])].online

C6_CloseStep ==
    /\ last'.op = "close"
    /\ connKind[last'.ws] = "device"
    /\ RecordOf(registeredDevices, connId[last'.ws]) # 0

C6_Stamped(d, online) ==
    LET r == registeredDevices'[RecordOf(registeredDevices, d)] IN
    /\ r.online = online
    /\ r.lastSeen = ToISO(now)

C6_OneDisconnected(h, d) ==
    /\ Cardinality(FramesOfType(out'[h], "deviceDisconnected")) = 1
    /\ \A i \in FramesOfType(out'[h], "deviceDisconnected") : out'[h][i].deviceId = d

\* C6 as claimed: every connected (Active) dashboard receives the event
C6_AsClaimed ==
    [][ /\ C6_ConnectStep => C6_Stamped(connId'[last'.ws], TRUE)
        /\ C6_CloseStep =>
                /\ C6_Stamped(connId[last'.ws], FALSE)
                /\ \A h \in Handles :
                        ActiveDashboard(h) => C6_OneDisconnected(h, connId[last'.ws]) ]_vars

\* C6 (amended): connect stamps online = true, disconnect stamps online =
\* false, each with lastSeen = the event time, and the disconnect sends one
\* deviceDisconnected to every dashboard that is held in the registry and
\* whose connection is open
C6_ConnectDisconnect ==
    [][ /\ C6_ConnectStep => C6_Stamped(connId'[last'.ws], TRUE)
        /\ C6_CloseStep =>
                /\ C6_Stamped(connId[last'.ws], FALSE)
                /\ \A h \in Handles :
                        OpenRegisteredDashboard(h)
                            => C6_OneDisconnected(h, connId[last'.ws]) ]_vars

\* a registered device that connected at time 0 disconnected at time 1 while
\* a dashboard was listening
C6_Witness ==
    /\ last.op = "close"
    /\ last.t = 1
    /\ connKind[last.ws] = "device"
    /\ connId[last.ws] = "device_001"
    /\ Cardinality(ConnectionsOf("device_001")) = 1
    /\ ~registeredDevices[1].online
    /\ registeredDevices[1].lastSeen = ToISO(1)
    /\ \E h \in Handles : FramesOfType(out[h], "deviceDisconnected") # {}

----------------------------------------------------------------------------
(* C7: after any sequence of sensorData merges with arbitrary field names,  *)
(* the snapshot contains the union of all keys ever merged, each key        *)
(* holding the value of the most recent merge that contained it, and        *)
(* lastUpdate equals the timestamp of the last merge.                       *)

C7_MergedKeys(keys) ==
    mergeLog.time >= 0 =>
        /\ \A k \in keys : k \in DOMAIN deviceStates /\ deviceStates[k] = mergeLog.fields[k]
        /\ deviceStates["lastUpdate"] = ToISO(mergeLog.time)

\* C7 as claimed: every merged key holds its most recently merged value
C7_AsClaimed == C7_MergedKeys(DOMAIN mergeLog.fields)

\* C7 (amended): every merged key other than lastUpdate holds its most
\* recently merged value, and lastUpdate is the time of the last merge
C7_MergeAccumulates == C7_MergedKeys((DOMAIN mergeLog.fields) \ {"lastUpdate"})

\* co2 was merged twice (410, then 400 at time 1) and temperature once
C7_Witness ==
    /\ last.op = "message"
    /\ mergeLog.time = 1
    /\ DOMAIN mergeLog.fields = {"co2", "temperature", "lastUpdate"}
    /\ deviceStates["co2"] = "400"
    /\ deviceStates["temperature"] = "30"

----------------------------------------------------------------------------
(* C8: a sensorData frame with field mapping F received from an Active      *)
(* device sets each key of F in the snapshot to F's value without altering  *)
(* any other field, and produces exactly one sensorUpdate frame per         *)
(* dashboard, carrying the device identity and the merged fields F.         *)

C8_Case ==
    /\ last'.op = "message"
    /\ last'.message.parses
    /\ last'.message.type = "sensorData"

C8_Sets(keys) ==
    /\ \A k \in keys : k \in DOMAIN deviceStates' /\ deviceStates'[k] = last'.message.data[k]
    /\ ChangedFields(deviceStates, deviceStates')
            \subseteq (DOMAIN last'.message.data) \cup {"lastUpdate"}

C8_OneSensorUpdate(h) ==
    /\ Cardinality(FramesOfType(out'[h], "sensorUpdate")) = 1
    /\ \A i \in FramesOfType(out'[h], "sensorUpdate") :
            /\ out'[h][i].deviceId = connId[last'.ws]
            /\ out'[h][i].data = last'.message.data

\* C8 as claimed: every key of F, every connected (Active) dashboard
C8_AsClaimed ==
    [][ C8_Case =>
            /\ C8_Sets(DOMAIN last'.message.data)
            /\ \A h \in Handles : ActiveDashboard(h) => C8_OneSensorUpdate(h) ]_vars

\* C8 (amended): every key of F other than lastUpdate takes F's value,
\* lastUpdate takes the merge time, no other field changes, and one
\* sensorUpdate carrying the identity and F goes to every dashboard that is
\* held in the registry and whose connection is open
C8_SensorDataEffect ==
    [][ C8_Case =>
            /\ C8_Sets((DOMAIN last'.message.data) \ {"lastUpdate"})
            /\ deviceStates'["lastUpdate"] = ToISO(now)
            /\ \A h \in Handles : OpenRegisteredDashboard(h) => C8_OneSensorUpdate(h) ]_vars

\* a one-key frame was merged while two dashboards were registered and open
C8_Witness ==
    /\ last.op = "message"
    /\ last.message.type = "sensorData"
    /\ DOMAIN last.message.data = {"co2"}
    /\ deviceStates["co2"] = "400"
    /\ Cardinality({h \in Handles : FramesOfType(out[h], "sensorUpdate") # {}}) = 2

----------------------------------------------------------------------------
(* C9: a connection request whose type is absent or not 'device'/'web', or  *)
(* whose type is 'device' with no deviceId, is closed with the              *)
(* policy-violation code, never reaches Active, never appears in either     *)
(* connection registry, and changes neither the shared state nor the device *)
(* registry.                                                                *)

C9_BadRequest ==
    /\ last'.op = "connection"
    /\ \/ last'.clientType \notin {"device", "web"}
       \/ last'.clientType = "device" /\ last'.deviceId \in {NULL, ""}

C9_Registered(h) ==
    \/ \E k \in DOMAIN iotDevices' : iotDevices'[k] = h
    \/ \E k \in DOMAIN webClients' : webClients'[k] = h

\* C9: a request with an invalid role is closed with code 1008 without any
\* effect on the registries, the snapshot or the device registry, and the
\* handle stays rejected, unregistered and not open ever after
C9_InvalidRoleRejected ==
    [][ /\ C9_BadRequest =>
                /\ closeCode'[last'.ws] = 1008
                /\ connKind'[last'.ws] = "rejected"
                /\ readyState'[last'.ws] \in {"CLOSING", "CLOSED"}
                /\ iotDevices' = iotDevices
                /\ webClients' = webClients
                /\ deviceStates' = deviceStates
                /\ registeredDevices' = registeredDevices
                /\ \A h \in Handles : out'[h] = << >>
        /\ \A h \in Handles : closeCode[h] = 1008 =>
                /\ closeCode'[h] = 1008
                /\ connKind'[h] = "rejected"
                /\ readyState'[h] \in {"CLOSING", "CLOSED"}
                /\ ~C9_Registered(h) ]_vars

\* a device request with an empty deviceId was rejected while a device and a
\* dashboard were registered
C9_Witness ==
    /\ last.op = "connection"
    /\ last.clientType = "device"
    /\ last.deviceId = ""
    /\ closeCode[last.ws] = 1008
    /\ DOMAIN iotDevices # {}
    /\ DOMAIN webClients # {}

----------------------------------------------------------------------------
(* C10: every write to the shared DeviceState refreshes lastUpdate: after   *)
(* any operation that changes a field of the snapshot, lastUpdate equals    *)
(* the time of that operation.                                              *)

\* C10: a step that changes a field of the snapshot leaves lastUpdate equal to
\* the time of that step
C10_WriteRefreshesLastUpdate ==
    [][ ChangedFields(deviceStates, deviceStates') \ {"lastUpdate"} # {}
            => deviceStates'["lastUpdate"] = ToISO(now) ]_vars

----------------------------------------------------------------------------
(* C11: on becoming Active a dashboard connection is registered and         *)
(* receives exactly one initialData frame containing the full device        *)
(* registry listing and the full snapshot as of that moment; this frame is  *)
(* the first frame the dashboard receives, preceding every sensorUpdate,    *)
(* stateUpdate or deviceDisconnected frame sent to it.                      *)

C11_WebConnectStep ==
    /\ last'.op = "connection"
    /\ connKind'[last'.ws] = "web"

\* C11: the step that makes a dashboard Active registers it and sends it one
\* frame, the initialData with the current registry listing and snapshot; no
\* handle receives a frame before its connection step, and no initialData is
\* sent in any other step
C11_InitialDataFirst ==
    [][ /\ C11_WebConnectStep =>
                /\ connId'[last'.ws] \in DOMAIN webClients'
                /\ webClients'[connId'[last'.ws]] = last'.ws
                /\ Len(out'[last'.ws]) = 1
                /\ out'[last'.ws][1].type = "initialData"
                /\ out'[last'.ws][1].devices = registeredDevices
                /\ out'[last'.ws][1].sensors = deviceStates
        /\ \A h \in Handles :
                /\ (connKind'[h] = "none") => out'[h] = << >>
                /\ (connKind[h] = "none" /\ connKind'[h] = "web")
                        => out'[h] # << >> /\ out'[h][1].type = "initialData"
                /\ FramesOfType(out'[h], "initialData") # {}
                        => C11_WebConnectStep /\ last'.ws = h /\ connKind[h] = "none" ]_vars

\* a dashboard connected after a merge and a command changed the snapshot and
\* a device went online
C11_Witness ==
    /\ last.op = "connection"
    /\ connKind[last.ws] = "web"
    /\ FramesOfType(out[last.ws], "initialData") = {1}
    /\ out[last.ws][1].sensors["led"] = "true"
    /\ "co2" \in DOMAIN out[last.ws][1].sensors
    /\ out[last.ws][1].devices[1].online


----------------------------------------------------------------------------
(* C12 *)

\* a well-formed sensorData frame this connection could send next
C12_WellFormed == {m \in Messages : m.parses /\ m.type = "sensorData"}

C12_MalformedHandled == last.op = "message" /\ ~last.message.parses

\* C12: the message handler run on a frame that does not parse changes nothing
\* and sends nothing: the connection is as open and as registered as before,
\* the snapshot, the device registry and both connection registries are
\* unchanged; after it the handler still processes every well-formed
\* sensorData frame of that connection
C12_MalformedIgnored ==
    /\ [][ (last'.op = "message" /\ ~last'.message.parses) =>
                /\ readyState' = readyState
                /\ readyState'[last'.ws] = "OPEN"
                /\ connKind' = connKind
                /\ iotDevices' = iotDevices
                /\ webClients' = webClients
                /\ deviceStates' = deviceStates
                /\ registeredDevices' = registeredDevices
                /\ out' = NoFrames ]_vars
    /\ [](C12_MalformedHandled =>
                \A m \in C12_WellFormed : ENABLED DeviceMessage(last.ws, m))

C12_Witness ==
    /\ C12_MalformedHandled
    /\ Has(iotDevices, connId[last.ws])
    /\ iotDevices[connId[last.ws]] = last.ws
    /\ \E h \in Handles : OpenRegisteredDashboard(h)
    /\ deviceStates # InitDeviceStates


----------------------------------------------------------------------------
(* C13 *)

\* the frame type broadcast by the last handler, NULL if it broadcast nothing
C13_Broadcast(l) ==
    IF l.op = "control" /\ l.res.status = 200 THEN "stateUpdate"
    ELSE IF l.op = "message" /\ l.message.parses /\ l.message.type = "sensorData"
         THEN "sensorUpdate"
    ELSE IF l.op = "close" /\ connKind[l.ws] = "device" THEN "deviceDisconnected"
    ELSE NULL

----------------------------------------------------------------------------
(* C14 *)

C14_Case ==
    /\ last'.op = "control"
    /\ last'.deviceId \in DOMAIN iotDevices
    /\ readyState[iotDevices[last'.deviceId]] = "OPEN"
    /\ last'.command \notin DOMAIN deviceStates

\* C14: a command whose name is no key of the snapshot, sent to a connected
\* open device, leaves the snapshot as it was (no key added, no value
\* changed); the device still gets the one command frame, every open
\* registered dashboard the one stateUpdate, and the caller the success response
C14_UnknownCommandRelayed ==
    [][ C14_Case =>
            LET ws == iotDevices[last'.deviceId] IN
            /\ deviceStates' = deviceStates
            /\ Len(out'[ws]) = 1
            /\ out'[ws][1].type = "command"
            /\ out'[ws][1].command = last'.command
            /\ out'[ws][1].value = last'.value
            /\ \A h \in Handles : OpenRegisteredDashboard(h) =>
                    /\ Len(out'[h]) = 1
                    /\ out'[h][1].type = "stateUpdate"
                    /\ out'[h][1].deviceId = last'.deviceId
                    /\ out'[h][1].command = last'.command
                    /\ out'[h][1].value = last'.value
            /\ last'.res.status = 200
            /\ last'.res.success = TRUE
            /\ last'.res.command = last'.command
            /\ last'.res.value = last'.value ]_vars

C14_Witness ==
    /\ last.op = "control"
    /\ last.command = "reboot"
    /\ last.res.status = 200
    /\ "reboot" \notin DOMAIN deviceStates
    /\ \E h \in Handles :
            /\ OpenRegisteredDashboard(h)
            /\ FramesOfType(out[h], "stateUpdate") = {1}
            /\ out[h][1].command = "reboot"
    /\ FramesOfType(out[iotDevices[last.deviceId]], "command") = {1}


----------------------------------------------------------------------------
(* C15 *)

\* the fields of a record that are written once, at startup
C15_Static(r) == [id |-> r.id, name |-> r.name, type |-> r.type, location |-> r.location]

C15_SameRecords ==
    /\ Len(registeredDevices) = Len(InitRegisteredDevices)
    /\ \A i \in 1..Len(InitRegisteredDevices) :
            /\ DOMAIN registeredDevices[i] = DOMAIN InitRegisteredDevices[i]
            /\ C15_Static(registeredDevices[i]) = C15_Static(InitRegisteredDevices[i])

\* the step is the connect or the close handler of a device connection whose
\* deviceId is d
C15_HandlerOf(d) ==
    \/ /\ last'.op = "connection"
       /\ connKind[last'.ws] = "none" /\ connKind'[last'.ws] = "device"
       /\ connId'[last'.ws] = d
    \/ /\ last'.op = "close"
       /\ connKind[last'.ws] = "device"
       /\ connId[last'.ws] = d

\* C15: the device registry always holds the startup records, in the startup
\* order, with the startup id, name, type and location; a record's online or
\* lastSeen changes only in the connect or close handler of a device
\* connection that carries the record's id
C15_RegistryFixed ==
    /\ [] C15_SameRecords
    /\ [][ \A i \in 1..Len(InitRegisteredDevices) :
                registeredDevices'[i] # registeredDevices[i]
                    => C15_HandlerOf(registeredDevices[i].id) ]_vars

C15_Witness ==
    /\ last.op = "close"
    /\ connKind[last.ws] = "device"
    /\ connId[last.ws] = "device_001"
    /\ ~registeredDevices[1].online
    /\ registeredDevices[1].lastSeen = ToISO(1)
    /\ registeredDevices[2] = InitRegisteredDevices[2]
    /\ \E h \in Handles : connKind[h] = "device" /\ connId[h] = "device_x"


----------------------------------------------------------------------------
(* C16 *)

\* d is the id of no record of the device registry
C16_Unknown(d) == RecordOf(registeredDevices, d) = 0

C16_Connect ==
    (/\ last'.op = "connection"
     /\ connKind'[last'.ws] = "device"
     /\ C16_Unknown(connId'[last'.ws]))
    => /\ readyState'[last'.ws] = "OPEN"
       /\ Has(iotDevices', connId'[last'.ws])
       /\ iotDevices'[connId'[last'.ws]] = last'.ws
       /\ FramesOfType(out'[last'.ws], "config") = {1}

C16_SensorData ==
    (/\ last'.op = "message"
     /\ last'.message.parses /\ last'.message.type = "sensorData"
     /\ C16_Unknown(connId[last'.ws]))
    => /\ \A k \in (DOMAIN last'.message.data) \ {"lastUpdate"} :
                Has(deviceStates', k) /\ deviceStates'[k] = last'.message.data[k]
       /\ \A h \in Handles : OpenRegisteredDashboard(h) =>
                /\ FramesOfType(out'[h], "sensorUpdate") = {1}
                /\ out'[h][1].deviceId = connId[last'.ws]
                /\ out'[h][1].data = last'.message.data

C16_Command ==
    (/\ last'.op = "control"
     /\ C16_Unknown(last'.deviceId)
     /\ Has(iotDevices, last'.deviceId)
     /\ readyState[iotDevices[last'.deviceId]] = "OPEN")
    => /\ last'.res.status = 200
       /\ last'.res.success = TRUE
       /\ FramesOfType(out'[iotDevices[last'.deviceId]], "command") = {1}
       /\ out'[iotDevices[last'.deviceId]][1].command = last'.command

C16_Close ==
    (/\ last'.op = "close"
     /\ connKind[last'.ws] = "device"
     /\ C16_Unknown(connId[last'.ws]))
    => \A h \in Handles : OpenRegisteredDashboard(h) =>
            /\ FramesOfType(out'[h], "deviceDisconnected") = {1}
            /\ out'[h][1].deviceId = connId[last'.ws]

\* a handler run for a device connection, or a command, whose id has no record
C16_Step ==
    \/ last'.op = "connection" /\ connKind'[last'.ws] = "device"
                               /\ C16_Unknown(connId'[last'.ws])
    \/ last'.op \in {"message", "close"} /\ connKind[last'.ws] = "device"
                                         /\ C16_Unknown(connId[last'.ws])
    \/ last'.op = "control" /\ C16_Unknown(last'.deviceId)

\* C16: a device whose id has no record is registered in iotDevices and open
\* after its connect step, its sensorData is merged and sent to the open
\* registered dashboards, a command for its id reaches it and succeeds, its
\* close sends deviceDisconnected; none of these steps changes the device
\* registry, which never holds a record with that id
C16_UnknownDeviceRelayed ==
    /\ [][ /\ C16_Connect
           /\ C16_SensorData
           /\ C16_Command
           /\ C16_Close
           /\ C16_Step => registeredDevices' = registeredDevices ]_vars
    /\ [](\A h \in Handles :
            (connKind[h] = "device" /\ RecordOf(InitRegisteredDevices, connId[h]) = 0)
                => C16_Unknown(connId[h]))

C16_Witness ==
    /\ last.op = "close"
    /\ connKind[last.ws] = "device"
    /\ connId[last.ws] = "device_x"
    /\ C16_Unknown("device_x")
    /\ "co2" \in DOMAIN deviceStates
    /\ \E h \in Handles :
            /\ OpenRegisteredDashboard(h)
            /\ FramesOfType(out[h], "deviceDisconnected") = {1}
            /\ out[h][1].deviceId = "device_x"


----------------------------------------------------------------------------
(* C17 *)

\* the close handler of the connection has run (or, for a rejected
\* connection, the close the server asked for has completed)
C17_Closed(h) == readyState[h] = "CLOSED"

C17_Forgotten(h) ==
    /\ h \notin MapValues(iotDevices)
    /\ h \notin MapValues(webClients)
    /\ out[h] = << >>

\* C17: a closed connection stays closed; in the state its close handler
\* leaves and in every later state, neither iotDevices nor webClients holds
\* its handle and no handler sends it a frame
C17_ClosedIsTerminal ==
    /\ [](\A h \in Handles : C17_Closed(h) => C17_Forgotten(h))
    /\ [][ \A h \in Handles : C17_Closed(h) => readyState'[h] = "CLOSED" ]_vars

C17_Witness ==
    /\ \E g, h, k \in Handles :
            /\ connKind[g] = "web" /\ C17_Closed(g)
            /\ connKind[h] = "device" /\ C17_Closed(h)
            /\ connKind[k] = "device" /\ connId[k] = connId[h]
            /\ readyState[k] = "OPEN"
            /\ FramesOfType(out[k], "command") = {1}
    /\ last.op = "control"
    /\ last.res.status = 200


----------------------------------------------------------------------------
(* C18 *)

\* C18: a record of the device registry is online exactly when iotDevices has
\* an entry under the record's id
C18_OnlineIffEntry ==
    \A i \in 1..Len(registeredDevices) :
        registeredDevices[i].online <=> Has(iotDevices, registeredDevices[i].id)

\* two connections used the id device_001; one has closed, which removed the
\* entry and stamped the record offline while the other is still open
C18_Witness ==
    /\ \E g, h \in Handles :
            /\ g # h
            /\ connKind[g] = "device" /\ connId[g] = "device_001"
            /\ connKind[h] = "device" /\ connId[h] = "device_001"
            /\ readyState[g] = "CLOSED"
            /\ readyState[h] = "OPEN"
    /\ ~registeredDevices[1].online
    /\ ~Has(iotDevices, "device_001")
    /\ registeredDevices[1].lastSeen # NULL


----------------------------------------------------------------------------
(* C19 *)

\* the frame types meant for dashboards
C19_DashboardTypes == {"sensorUpdate", "stateUpdate", "deviceDisconnected", "initialData"}

\* C19: a command frame is sent only by the control handler and only to the
\* handle that iotDevices holds under the deviceId of the call, which is a
\* device connection that connected with that deviceId; sensorUpdate,
\* stateUpdate, deviceDisconnected and initialData frames are sent only to
\* dashboard connections
C19_Routing ==
    [][ \A h \in Handles : \A i \in 1..Len(out'[h]) :
            /\ out'[h][i].type = "command" =>
                    /\ last'.op = "control"
                    /\ Has(iotDevices, last'.deviceId)
                    /\ iotDevices[last'.deviceId] = h
                    /\ connKind[h] = "device"
                    /\ connId[h] = last'.deviceId
                    /\ out'[h][i].command = last'.command
                    /\ out'[h][i].value = last'.value
            /\ out'[h][i].type \in C19_DashboardTypes => connKind'[h] = "web" ]_vars

C19_Witness ==
    /\ last.op = "control"
    /\ last.res.status = 200
    /\ \E d, e, w \in Handles :
            /\ connKind[d] = "device" /\ connId[d] = last.deviceId
            /\ connKind[e] = "device" /\ connId[e] # last.deviceId
            /\ readyState[e] = "OPEN"
            /\ connKind[w] = "web" /\ readyState[w] = "OPEN"
            /\ Len(out[d]) = 1 /\ out[d][1].type = "command"
            /\ out[e] = << >>
            /\ Len(out[w]) = 1 /\ out[w][1].type = "stateUpdate"

====
